---- MODULE Spec2Model ----
(***************************************************************************)
(* Model of ncollide's SupportMapSupportMapManifoldGenerator               *)
(* (ncollide_pipeline/narrow_phase/contact_generator/                      *)
(*  support_map_support_map_manifold_generator.rs).                        *)
(*                                                                         *)
(* Numbers.  Coordinates are integers; a scalar produced by a division is  *)
(* the exact fraction [n, d], and d = 0 stands for the non-finite value    *)
(* (NaN) an IEEE division by zero produces.  Rounding is not modelled.     *)
(* Poses.  The isometry type M is instantiated with the identity `Id`, so  *)
(* inverse_transform_point / inverse_transform_vector are the identity.    *)
(* Dimension.  Spec and ClipSpec instantiate the point type with the 2D     *)
(* one (dimension = 2), Spec3D and Clip3DSpec with the 3D one.             *)
(* Unit vectors.  A unit vector that is not axis-aligned (a tilted face's   *)
(* normal, an edge's direction) is kept as an integer vector of the same   *)
(* direction; it is used only where its length cancels.                    *)
(***************************************************************************)
EXTENDS Integers, Naturals, Sequences, FiniteSets, TLC

VARIABLES
    dimension,         \* na::dimension::<P::Vector>() of the instantiation
    last_gjk_dir,      \* Option<P::Vector>: None or [some |-> v]
    contact_manifold,  \* ContactManifold: the live records
    cache,             \* ContactManifold: the previous frame's snapshot
    new_contacts,      \* Vec<(Contact, FeatureId, FeatureId)>
    manifold1,         \* ConvexPolyface of shape A
    manifold2,         \* ConvexPolyface of shape B
    ids,               \* the shared IdAllocator
    pushed,            \* the raw contacts pushed since save_cache_and_clear
    call,              \* the last call: its inputs and its outcome
    repeated,          \* the last update had the inputs of the one before
    point_query        \* a Triangle, a point and the point's projection on it

vars == <<dimension, last_gjk_dir, contact_manifold, cache, new_contacts,
          manifold1, manifold2, ids, pushed, call, repeated, point_query>>

(***************************************************************************)
(* Bounds of the model.                                                    *)
(***************************************************************************)
\* largest x coordinate of a polyface vertex
MaxX == 3
\* largest y coordinate of a polyface vertex
MaxY == 1
\* largest x coordinate of a vertex of shape B's polyface in updates
MaxB == 2
\* slot ids the allocator may have handed out before an update is refused
MaxId == 2
\* the same for the updates in 3D
MaxId3 == 4
\* largest shift of shape B's rectangular faces along x and along y
MaxShift == 3
\* largest coordinate of a triangle's vertices and of the point
\* projected on it
MaxT == 3

None == [some |-> FALSE]
Some(v) == [some |-> TRUE, v |-> v]

(***************************************************************************)
(* Vectors and exact scalars.                                              *)
(***************************************************************************)
Dot(u, v) ==
    IF Len(u) = 2 THEN u[1] * v[1] + u[2] * v[2]
    ELSE u[1] * v[1] + u[2] * v[2] + u[3] * v[3]
Sub(u, v) ==
    IF Len(u) = 2 THEN <<u[1] - v[1], u[2] - v[2]>>
    ELSE <<u[1] - v[1], u[2] - v[2], u[3] - v[3]>>
Neg(u) ==
    IF Len(u) = 2 THEN <<-u[1], -u[2]>> ELSE <<-u[1], -u[2], -u[3]>>
\* u * a + v * b
Comb(u, a, v, b) ==
    IF Len(u) = 2 THEN <<u[1] * a + v[1] * b, u[2] * a + v[2] * b>>
    ELSE <<u[1] * a + v[1] * b, u[2] * a + v[2] * b, u[3] * a + v[3] * b>>

\* a point with exact integer coordinates, as a fraction point
Exact(p) == [n |-> p, d |-> 1]
\* the non-finite point
NaNPoint == [n |-> <<0, 0>>, d |-> 0]
NaNPoint3 == [n |-> <<0, 0, 0>>, d |-> 0]
IsFinite(q) == q.d # 0
\* equality of two finite fraction points
SamePoint(q, r) ==
    /\ IsFinite(q) /\ IsFinite(r)
    /\ \A k \in DOMAIN q.n : q.n[k] * r.d = r.n[k] * q.d

\* FeatureId
Vertex(i) == <<"Vertex", i>>
Edge(i) == <<"Edge", i>>
Face(i) == <<"Face", i>>
Unknown == <<"Unknown", 0>>

\* ConvexPolyface::new() / ConvexPolyface::clear()
EmptyPolyface ==
    [vertices |-> <<>>, vertices_id |-> <<>>, edges_id |-> <<>>,
     feature_id |-> Unknown, normal |-> None]

\* a/b as an exact scalar; b >= 0 in every use
Div(a, b) == [n |-> a, d |-> b]

\* Segment::point_at(&SegmentPointLocation::OnEdge([1 - bcoord, bcoord]))
point_at(seg, bcoord) ==
    IF bcoord.d = 0
    THEN IF Len(seg[1]) = 2 THEN NaNPoint ELSE NaNPoint3
    ELSE [n |-> Comb(seg[1], bcoord.d - bcoord.n, seg[2], bcoord.n),
          d |-> bcoord.d]

\* Contact::new_wo_depth(world1, world2, normal)
new_wo_depth(world1, world2, normal) ==
    [world1 |-> world1, world2 |-> world2, normal |-> normal,
     depth |-> IF IsFinite(world1) /\ IsFinite(world2)
               THEN Div(Dot(Comb(world1.n, world2.d, world2.n, -world1.d),
                            normal),
                        world1.d * world2.d)
               ELSE Div(0, 0)]

Swap(s) == <<s[2], s[1]>>

Min(S) == CHOOSE x \in S : \A y \in S : x <= y

(***************************************************************************)
(* clip_polyfaces, 2D branch.                                              *)
(***************************************************************************)
\* the lower-bound contact, lines 197-213
ClipLow(m1, m2, normal, seg1, seg2, range1, range2, features1, features2) ==
    IF range2[1] > range1[1]
    THEN LET bcoord == Div(range2[1] - range1[1], range1[2] - range1[1])
             p1 == point_at(seg1, bcoord)
             p2 == Exact(seg2[1])
         IN  [contact |-> new_wo_depth(p1, p2, normal),
              f1 |-> m1.feature_id, f2 |-> features2[1]]
    ELSE LET bcoord == Div(range1[1] - range2[1], range2[2] - range2[1])
             p1 == Exact(seg1[1])
             p2 == point_at(seg2, bcoord)
         IN  [contact |-> new_wo_depth(p1, p2, normal),
              f1 |-> features1[1], f2 |-> m2.feature_id]

\* the upper-bound contact, lines 215-231
ClipHigh(m1, m2, normal, seg1, seg2, range1, range2, features1, features2) ==
    IF range2[2] < range1[2]
    THEN LET bcoord == Div(range2[2] - range1[1], range1[2] - range1[1])
             p1 == point_at(seg1, bcoord)
             p2 == Exact(seg2[2])
         IN  [contact |-> new_wo_depth(p1, p2, normal),
              f1 |-> m1.feature_id, f2 |-> features2[2]]
    ELSE LET bcoord == Div(range1[2] - range2[1], range2[2] - range2[1])
             p1 == Exact(seg1[2])
             p2 == point_at(seg2, bcoord)
         IN  [contact |-> new_wo_depth(p1, p2, normal),
              f1 |-> features1[2], f2 |-> m2.feature_id]

\* mutant: the swaps of lines 177-187 leave the vertex ids in place
Ordered2D_features_not_swapped(m1, m2, normal) ==
    LET ortho == <<-normal[2], normal[1]>>
        seg1 == <<m1.vertices[1], m1.vertices[2]>>
        seg2 == <<m2.vertices[1], m2.vertices[2]>>
        ref_pt == seg1[1]
        range1 == <<Dot(Sub(seg1[1], ref_pt), ortho),
                    Dot(Sub(seg1[2], ref_pt), ortho)>>
        range2 == <<Dot(Sub(seg2[1], ref_pt), ortho),
                    Dot(Sub(seg2[2], ref_pt), ortho)>>
        swap1 == range1[2] < range1[1]
        swap2 == range2[2] < range2[1]
    IN  [range1 |-> IF swap1 THEN Swap(range1) ELSE range1,
         features1 |-> <<m1.vertices_id[1], m1.vertices_id[2]>>,
         seg1 |-> IF swap1 THEN Swap(seg1) ELSE seg1,
         range2 |-> IF swap2 THEN Swap(range2) ELSE range2,
         features2 |-> <<m2.vertices_id[1], m2.vertices_id[2]>>,
         seg2 |-> IF swap2 THEN Swap(seg2) ELSE seg2]

\* lines 158-187: the two segments, their projected ranges and their vertex
\* ids, each in ascending projected order
Ordered2D(m1, m2, normal) ==
    LET ortho == <<-normal[2], normal[1]>>
        seg1 == <<m1.vertices[1], m1.vertices[2]>>
        seg2 == <<m2.vertices[1], m2.vertices[2]>>
        ref_pt == seg1[1]
        range1 == <<Dot(Sub(seg1[1], ref_pt), ortho),
                    Dot(Sub(seg1[2], ref_pt), ortho)>>
        range2 == <<Dot(Sub(seg2[1], ref_pt), ortho),
                    Dot(Sub(seg2[2], ref_pt), ortho)>>
        features1 == <<m1.vertices_id[1], m1.vertices_id[2]>>
        features2 == <<m2.vertices_id[1], m2.vertices_id[2]>>
        swap1 == range1[2] < range1[1]
        swap2 == range2[2] < range2[1]
    IN  [range1 |-> IF swap1 THEN Swap(range1) ELSE range1,
         features1 |-> IF swap1 THEN Swap(features1) ELSE features1,
         seg1 |-> IF swap1 THEN Swap(seg1) ELSE seg1,
         range2 |-> IF swap2 THEN Swap(range2) ELSE range2,
         features2 |-> IF swap2 THEN Swap(features2) ELSE features2,
         seg2 |-> IF swap2 THEN Swap(seg2) ELSE seg2]

\* lines 197-231: the two contacts of two overlapping ranges
ClipBoth(m1, m2, normal, o) ==
    <<ClipLow(m1, m2, normal, o.seg1, o.seg2, o.range1, o.range2,
              o.features1, o.features2),
      ClipHigh(m1, m2, normal, o.seg1, o.seg2, o.range1, o.range2,
               o.features1, o.features2)>>

\* mutant: ranges that only touch count as disjoint
Clip2D_touching_is_disjoint(m1, m2, normal) ==
    IF Len(m1.vertices) <= 1 \/ Len(m2.vertices) <= 1 THEN <<>>
    ELSE LET o == Ordered2D(m1, m2, normal)
         IN  IF o.range2[1] >= o.range1[2] \/ o.range1[1] >= o.range2[2]
             THEN <<>>
             ELSE ClipBoth(m1, m2, normal, o)

\* the raw contacts the 2D branch appends to new_contacts, lines 154-231
Clip2D(m1, m2, normal) ==
    IF Len(m1.vertices) <= 1 \/ Len(m2.vertices) <= 1 THEN <<>>
    ELSE LET o == Ordered2D(m1, m2, normal)
         IN  IF o.range2[1] > o.range1[2] \/ o.range1[1] > o.range2[2]
             THEN <<>>
             ELSE ClipBoth(m1, m2, normal, o)

(***************************************************************************)
(* clip_polyfaces, 3D branch.                                              *)
(***************************************************************************)
\* P::Vector::orthonormal_subspace_basis(&[normal]) for an axis-aligned
\* normal: the two other axes
orthonormal_subspace_basis(normal) ==
    CASE normal[3] # 0 -> <<<<1, 0, 0>>, <<0, 1, 0>>>>
      [] normal[1] # 0 -> <<<<0, 1, 0>>, <<0, 0, 1>>>>
      [] OTHER -> <<<<0, 0, 1>>, <<1, 0, 0>>>>

\* lines 252-262: clip_cache.poly1 / clip_cache.poly2
ProjectPoly(m, ref_pt, basis) ==
    [i \in DOMAIN m.vertices |->
        <<Dot(basis[1], Sub(m.vertices[i], ref_pt)),
          Dot(basis[2], Sub(m.vertices[i], ref_pt))>>]

\* Vector2::perp
Perp(u, v) == u[1] * v[2] - u[2] * v[1]

\* utils::point_in_poly2d: pt is on the same side of every edge of the
\* (convex) polygon, its boundary included
point_in_poly2d(pt, poly) ==
    /\ Len(poly) # 0
    /\ \A i \in DOMAIN poly, j \in DOMAIN poly :
         Perp(Sub(pt, poly[i]), Sub(poly[(i % Len(poly)) + 1], poly[i]))
           * Perp(Sub(pt, poly[j]), Sub(poly[(j % Len(poly)) + 1], poly[j]))
             >= 0

\* ray_internal::plane_toi_with_line(center, normal, origin, dir)
plane_toi_with_line(center, n, origin, dir) ==
    Div(Dot(Sub(center, origin), n), Dot(dir, n))

\* origin + dir * toi, lines 274 and 294
PointAlong(origin, dir, toi) ==
    IF toi.d = 0 THEN NaNPoint3
    ELSE IF toi.d > 0 THEN [n |-> Comb(origin, toi.d, dir, toi.n), d |-> toi.d]
    ELSE [n |-> Comb(origin, -toi.d, dir, -toi.n), d |-> -toi.d]

\* ConvexPolyface::nedges
nedges(m) ==
    CASE Len(m.vertices) = 1 -> 0
      [] Len(m.vertices) = 2 -> 1
      [] OTHER -> Len(m.vertices)

\* closest_points_internal::segment_against_segment_with_locations on two 2D
\* segments: whether both locations are OnEdge, and then the two barycentric
\* coordinates.  The closest points are both strictly inside their segments
\* exactly when the segments cross there; parallel segments have a closest
\* pair with an endpoint, which is the one reported.
segment_against_segment_with_locations(seg1, seg2) ==
    LET d1 == Sub(seg1[2], seg1[1])
        d2 == Sub(seg2[2], seg2[1])
        r == Sub(seg2[1], seg1[1])
        den == Perp(d1, d2)
        sgn == IF den < 0 THEN -1 ELSE 1
        s == Div(sgn * Perp(r, d2), sgn * den)
        t == Div(sgn * Perp(r, d1), sgn * den)
    IN  IF den = 0 THEN [on_edges |-> FALSE]
        ELSE IF 0 < s.n /\ s.n < s.d /\ 0 < t.n /\ t.n < t.d
             THEN [on_edges |-> TRUE, e1 |-> s, e2 |-> t]
             ELSE [on_edges |-> FALSE]

Indices(n) == [i \in 1..n |-> i]

\* mutant: the point on polyface 2 is not ray-cast onto its plane
ClipVertices1_no_raycast(m1, m2, poly1, poly2, ref_pt, basis, normal) ==
    LET inside(i) == point_in_poly2d(poly1[i], poly2)
        sel == SelectSeq(Indices(Len(poly1)), inside)
        c(i) ==
            LET pt == poly1[i]
                origin == Comb(Comb(basis[1], pt[1], basis[2], pt[2]), 1,
                               ref_pt, 1)
                world2 == Exact(origin)
                world1 == Exact(m1.vertices[i])
            IN  [contact |-> new_wo_depth(world1, world2, normal),
                 f1 |-> m1.vertices_id[i], f2 |-> m2.feature_id]
    IN  IF Len(poly2) > 2 THEN [k \in 1..Len(sel) |-> c(sel[k])] ELSE <<>>

\* lines 264-282: the vertices of polyface 1 inside polyface 2
ClipVertices1(m1, m2, poly1, poly2, ref_pt, basis, normal) ==
    LET inside(i) == point_in_poly2d(poly1[i], poly2)
        sel == SelectSeq(Indices(Len(poly1)), inside)
        c(i) ==
            LET pt == poly1[i]
                origin == Comb(Comb(basis[1], pt[1], basis[2], pt[2]), 1,
                               ref_pt, 1)
                n2 == m2.normal.v
                p2 == m2.vertices[1]
                toi2 == plane_toi_with_line(p2, n2, origin, normal)
                world2 == PointAlong(origin, normal, toi2)
                world1 == Exact(m1.vertices[i])
            IN  [contact |-> new_wo_depth(world1, world2, normal),
                 f1 |-> m1.vertices_id[i], f2 |-> m2.feature_id]
    IN  IF Len(poly2) > 2 THEN [k \in 1..Len(sel) |-> c(sel[k])] ELSE <<>>

\* lines 284-302: the vertices of polyface 2 inside polyface 1
ClipVertices2(m1, m2, poly1, poly2, ref_pt, basis, normal) ==
    LET inside(i) == point_in_poly2d(poly2[i], poly1)
        sel == SelectSeq(Indices(Len(poly2)), inside)
        c(i) ==
            LET pt == poly2[i]
                origin == Comb(Comb(basis[1], pt[1], basis[2], pt[2]), 1,
                               ref_pt, 1)
                n1 == m1.normal.v
                p1 == m1.vertices[1]
                toi1 == plane_toi_with_line(p1, n1, origin, normal)
                world1 == PointAlong(origin, normal, toi1)
                world2 == Exact(m2.vertices[i])
            IN  [contact |-> new_wo_depth(world1, world2, normal),
                 f1 |-> m1.feature_id, f2 |-> m2.vertices_id[i]]
    IN  IF Len(poly1) > 2 THEN [k \in 1..Len(sel) |-> c(sel[k])] ELSE <<>>

\* mutant: each original edge is interpolated at the other edge's parameter
ClipEdges_swapped_parameters(m1, m2, poly1, poly2, normal) ==
    LET nedges1 == nedges(m1)
        nedges2 == nedges(m2)
        pair(k) == <<((k - 1) \div nedges2) + 1, ((k - 1) % nedges2) + 1>>
        j1(i1) == (i1 % Len(poly1)) + 1
        j2(i2) == (i2 % Len(poly2)) + 1
        loc(k) ==
            segment_against_segment_with_locations(
                <<poly1[pair(k)[1]], poly1[j1(pair(k)[1])]>>,
                <<poly2[pair(k)[2]], poly2[j2(pair(k)[2])]>>)
        hit(k) == loc(k).on_edges
        sel == SelectSeq(Indices(nedges1 * nedges2), hit)
        c(k) ==
            LET i1 == pair(k)[1]
                i2 == pair(k)[2]
                original1 == <<m1.vertices[i1], m1.vertices[j1(i1)]>>
                original2 == <<m2.vertices[i2], m2.vertices[j2(i2)]>>
                world1 == point_at(original1, loc(k).e2)
                world2 == point_at(original2, loc(k).e1)
            IN  [contact |-> new_wo_depth(world1, world2, normal),
                 f1 |-> m1.edges_id[i1], f2 |-> m2.edges_id[i2]]
    IN  [k \in 1..Len(sel) |-> c(sel[k])]

\* lines 304-331: the pairs of edges whose projections cross
ClipEdges(m1, m2, poly1, poly2, normal) ==
    LET nedges1 == nedges(m1)
        nedges2 == nedges(m2)
        pair(k) == <<((k - 1) \div nedges2) + 1, ((k - 1) % nedges2) + 1>>
        j1(i1) == (i1 % Len(poly1)) + 1
        j2(i2) == (i2 % Len(poly2)) + 1
        loc(k) ==
            segment_against_segment_with_locations(
                <<poly1[pair(k)[1]], poly1[j1(pair(k)[1])]>>,
                <<poly2[pair(k)[2]], poly2[j2(pair(k)[2])]>>)
        hit(k) == loc(k).on_edges
        sel == SelectSeq(Indices(nedges1 * nedges2), hit)
        c(k) ==
            LET i1 == pair(k)[1]
                i2 == pair(k)[2]
                original1 == <<m1.vertices[i1], m1.vertices[j1(i1)]>>
                original2 == <<m2.vertices[i2], m2.vertices[j2(i2)]>>
                world1 == point_at(original1, loc(k).e1)
                world2 == point_at(original2, loc(k).e2)
            IN  [contact |-> new_wo_depth(world1, world2, normal),
                 f1 |-> m1.edges_id[i1], f2 |-> m2.edges_id[i2]]
    IN  [k \in 1..Len(sel) |-> c(sel[k])]

\* mutant: the 2D threshold, the skip applies to single vertices only
Clip3D_skip_single_vertices(m1, m2, normal) ==
    IF Len(m1.vertices) <= 1 /\ Len(m2.vertices) <= 1 THEN <<>>
    ELSE LET basis == orthonormal_subspace_basis(normal)
             ref_pt == m1.vertices[1]
             poly1 == ProjectPoly(m1, ref_pt, basis)
             poly2 == ProjectPoly(m2, ref_pt, basis)
         IN  ClipVertices1(m1, m2, poly1, poly2, ref_pt, basis, normal)
               \o ClipVertices2(m1, m2, poly1, poly2, ref_pt, basis, normal)
               \o ClipEdges(m1, m2, poly1, poly2, normal)

\* the raw contacts the 3D branch appends to new_contacts, lines 235-331
Clip3D(m1, m2, normal) ==
    IF Len(m1.vertices) <= 2 /\ Len(m2.vertices) <= 2 THEN <<>>
    ELSE LET basis == orthonormal_subspace_basis(normal)
             ref_pt == m1.vertices[1]
             poly1 == ProjectPoly(m1, ref_pt, basis)
             poly2 == ProjectPoly(m2, ref_pt, basis)
         IN  ClipVertices1(m1, m2, poly1, poly2, ref_pt, basis, normal)
               \o ClipVertices2(m1, m2, poly1, poly2, ref_pt, basis, normal)
               \o ClipEdges(m1, m2, poly1, poly2, normal)

\* clip_polyfaces: what it appends to new_contacts
clip_polyfaces(m1, m2, normal) ==
    IF dimension = 2 THEN Clip2D(m1, m2, normal) ELSE Clip3D(m1, m2, normal)

(***************************************************************************)
(* contact_kinematic.                                                      *)
(***************************************************************************)
\* ConvexPolyface::edge(id): the first edge carrying the id, if any
edge(m, f) ==
    LET hits == {i \in 1..nedges(m) :
                    i \in DOMAIN m.edges_id /\ m.edges_id[i] = f}
        i1 == Min(hits)
    IN  IF hits = {} THEN None
        ELSE Some(<<m.vertices[i1], m.vertices[(i1 % Len(m.vertices)) + 1]>>)

\* Segment::direction(): none for a segment of no length
direction(seg) ==
    IF seg[1] = seg[2] THEN None ELSE Some(Sub(seg[2], seg[1]))

\* the direction of the edge f of m as lines 131-132 obtain it; none stands
\* for the panic of expect("Invalid edge id.") or of unwrap()
EdgeDirection(m, f) ==
    IF edge(m, f).some THEN direction(edge(m, f).v) ELSE None

\* mutant: a missing edge or direction is downgraded to PointPoint
contact_kinematic_3d_downgrades(m1, f1, m2, f2) ==
    CASE f1[1] = "Vertex" /\ f2[1] = "Vertex" -> <<"PointPoint">>
      [] f1[1] = "Vertex" /\ f2[1] = "Face" -> <<"PointPlane">>
      [] f1[1] = "Face" /\ f2[1] = "Vertex" -> <<"PlanePoint">>
      [] f1[1] = "Edge" /\ f2[1] = "Vertex" ->
            IF EdgeDirection(m1, f1).some
            THEN <<"LinePoint", EdgeDirection(m1, f1).v>>
            ELSE <<"PointPoint">>
      [] f1[1] = "Vertex" /\ f2[1] = "Edge" ->
            IF EdgeDirection(m2, f2).some
            THEN <<"PointLine", EdgeDirection(m2, f2).v>>
            ELSE <<"PointPoint">>
      [] f1[1] = "Edge" /\ f2[1] = "Edge" ->
            IF EdgeDirection(m1, f1).some /\ EdgeDirection(m2, f2).some
            THEN <<"LineLine", EdgeDirection(m1, f1).v,
                   EdgeDirection(m2, f2).v>>
            ELSE <<"PointPoint">>
      [] OTHER -> <<"PointPoint">>

\* the 3D table, lines 126-148; <<"Panic">> is the panic of lines 131-144
contact_kinematic_3d(m1, f1, m2, f2) ==
    CASE f1[1] = "Vertex" /\ f2[1] = "Vertex" -> <<"PointPoint">>
      [] f1[1] = "Vertex" /\ f2[1] = "Face" -> <<"PointPlane">>
      [] f1[1] = "Face" /\ f2[1] = "Vertex" -> <<"PlanePoint">>
      [] f1[1] = "Edge" /\ f2[1] = "Vertex" ->
            IF EdgeDirection(m1, f1).some
            THEN <<"LinePoint", EdgeDirection(m1, f1).v>>
            ELSE <<"Panic">>
      [] f1[1] = "Vertex" /\ f2[1] = "Edge" ->
            IF EdgeDirection(m2, f2).some
            THEN <<"PointLine", EdgeDirection(m2, f2).v>>
            ELSE <<"Panic">>
      [] f1[1] = "Edge" /\ f2[1] = "Edge" ->
            IF EdgeDirection(m1, f1).some /\ EdgeDirection(m2, f2).some
            THEN <<"LineLine", EdgeDirection(m1, f1).v,
                   EdgeDirection(m2, f2).v>>
            ELSE <<"Panic">>
      [] OTHER -> <<"PointPoint">>

contact_kinematic(m1, f1, m2, f2) ==
    IF dimension = 2
    THEN CASE f1[1] = "Vertex" /\ f2[1] = "Vertex" -> <<"PointPoint">>
           [] f1[1] = "Vertex" /\ f2[1] = "Edge" -> <<"PointPlane">>
           [] f1[1] = "Edge" /\ f2[1] = "Vertex" -> <<"PlanePoint">>
           [] OTHER -> <<"PointPoint">>
    ELSE contact_kinematic_3d(m1, f1, m2, f2)

(***************************************************************************)
(* IdAllocator and ContactManifold.                                        *)
(***************************************************************************)
\* IdAllocator::new(): the next unused id and the pool of reclaimed ids
NewIdAllocator == [curr |-> 0, free |-> {}]

\* IdAllocator::alloc(): the id handed out and the allocator afterwards
alloc(al) ==
    IF al.free # {}
    THEN [id |-> Min(al.free), al |-> [al EXCEPT !.free = @ \ {Min(al.free)}]]
    ELSE [id |-> al.curr, al |-> [al EXCEPT !.curr = al.curr + 1]]

\* IdAllocator::free(id)
free(al, id) == [al EXCEPT !.free = @ \cup {id}]

RECURSIVE FreeAll(_, _)
FreeAll(al, cm) ==
    IF cm = <<>> THEN al ELSE FreeAll(free(al, Head(cm).id), Tail(cm))

\* ContactManifold::save_cache_and_clear(ids): the snapshot of the records
\* (feature-id pair -> slot id), the allocator with their ids released, and
\* the emptied record list
save_cache_and_clear(cm, al) ==
    [cache |-> {<<cm[i].f1, cm[i].f2, cm[i].id>> : i \in DOMAIN cm},
     ids |-> FreeAll(al, cm),
     cm |-> <<>>]

\* the slot id the snapshot holds for a feature-id pair
CachedIds(ch, f1, f2) == {e[3] : e \in {x \in ch : x[1] = f1 /\ x[2] = f2}}

\* the record list with the record of rec's feature-id pair replaced by rec,
\* or with rec appended when the list has none
InsertOrReplace(cm, rec) ==
    IF \E i \in DOMAIN cm : cm[i].f1 = rec.f1 /\ cm[i].f2 = rec.f2
    THEN [i \in DOMAIN cm |->
            IF cm[i].f1 = rec.f1 /\ cm[i].f2 = rec.f2 THEN rec ELSE cm[i]]
    ELSE Append(cm, rec)

\* ContactManifold::push(contact, local1, local2, n1, n2, f1, f2, kinematic,
\* ids): the records, the allocator and the returned flag
push(cm, ch, al, c, local1, local2, f1, f2, kinematic) ==
    LET hit == CachedIds(ch, f1, f2)
        got == alloc(al)
        id == IF hit # {} THEN CHOOSE x \in hit : TRUE ELSE got.id
        rec == [contact |-> c, local1 |-> local1, local2 |-> local2,
                f1 |-> f1, f2 |-> f2, kinematic |-> kinematic, id |-> id]
    IN  [cm |-> InsertOrReplace(cm, rec),
         ids |-> IF hit # {} THEN al ELSE got.al,
         replaced |-> hit # {}]

\* ContactManifold::len()
len(cm) == Len(cm)

(***************************************************************************)
(* save_new_contacts_as_contact_manifold.                                  *)
(***************************************************************************)
\* the body of the loop, lines 95-106: one raw contact classified and pushed
PushOne(st, rc, m1, m2) ==
    LET kinematic == contact_kinematic(m1, rc.f1, m2, rc.f2)
        local1 == rc.contact.world1
        local2 == rc.contact.world2
        r == push(st.cm, st.cache, st.ids, rc.contact, local1, local2,
                  rc.f1, rc.f2, kinematic)
    IN  IF kinematic = <<"Panic">> THEN [st EXCEPT !.panicked = TRUE]
        ELSE [cm |-> r.cm, cache |-> st.cache, ids |-> r.ids,
              navoid |-> st.navoid + (IF r.replaced THEN 1 ELSE 0),
              panicked |-> FALSE]

RECURSIVE PushNewContacts(_, _, _, _)

\* mutant: the loop stops after the first raw contact
PushNewContacts_first_only(st, raw, m1, m2) ==
    IF raw = <<>> THEN st ELSE PushOne(st, Head(raw), m1, m2)

\* the loop of line 94 over the drained new_contacts
PushNewContacts(st, raw, m1, m2) ==
    IF raw = <<>> \/ st.panicked THEN st
    ELSE PushNewContacts(PushOne(st, Head(raw), m1, m2), Tail(raw), m1, m2)

\* mutant: the records are cleared, but no snapshot is kept and no id released
save_new_contacts_without_snapshot(cm, al, raw, m1, m2) ==
    PushNewContacts([cm |-> <<>>, cache |-> {}, ids |-> al, navoid |-> 0,
                     panicked |-> FALSE], raw, m1, m2)

\* mutant: the snapshot is taken, but the records are not cleared
save_new_contacts_without_clear(cm, al, raw, m1, m2) ==
    LET s == save_cache_and_clear(cm, al)
    IN  PushNewContacts([cm |-> cm, cache |-> s.cache, ids |-> s.ids,
                         navoid |-> 0, panicked |-> FALSE], raw, m1, m2)

\* the manifold, its snapshot, the allocator and the count of replacements
\* after committing the raw contacts, and whether the loop panicked
save_new_contacts_as_contact_manifold(cm, al, raw, m1, m2) ==
    LET s == save_cache_and_clear(cm, al)
    IN  PushNewContacts([cm |-> s.cm, cache |-> s.cache, ids |-> s.ids,
                         navoid |-> 0, panicked |-> FALSE], raw, m1, m2)

(***************************************************************************)
(* The collaborators' answers: the closest-point query and the shapes'     *)
(* support features.                                                       *)
(***************************************************************************)
\* unit contact normals and witness directions of the updates
Normals == {<<0, 1>>}
\* signed depths of a witness contact: separated within the margin, or
\* penetrating
Depths == {-1, 1}

\* the witness contact of a Projection result
WitnessContact(normal, depth) ==
    [world1 |-> Exact(<<0, 0>>),
     world2 |-> Exact(<<-(depth * normal[1]), -(depth * normal[2])>>),
     normal |-> normal, depth |-> Div(depth, 1)]

\* GJKResult as support_map_against_support_map_with_params returns it
Projection(contact, dir) ==
    [kind |-> "Projection", contact |-> contact, dir |-> dir]
NoIntersection(dir) ==
    [kind |-> "NoIntersection", contact |-> WitnessContact(dir, 0), dir |-> dir]
\* any other variant (Intersection, Proximity)
Indeterminate ==
    [kind |-> "Indeterminate", contact |-> WitnessContact(<<0, 0>>, 0),
     dir |-> <<0, 0>>]
\* no query was made
NotQueried ==
    [kind |-> "NotQueried", contact |-> WitnessContact(<<0, 0>>, 0),
     dir |-> <<0, 0>>]

ProjectionResults ==
    {Projection(WitnessContact(n, d), n) : n \in Normals, d \in Depths}
\* separating directions of a NoIntersection result
SeparatingDirs == {<<0, 1>>, <<1, 1>>}
QueryResults ==
    ProjectionResults \cup {NoIntersection(d) : d \in SeparatingDirs}
        \cup {Indeterminate}

\* a polyface of one vertex
VertexFace(p, i) ==
    [vertices |-> <<p>>, vertices_id |-> <<Vertex(i)>>, edges_id |-> <<>>,
     feature_id |-> Vertex(i), normal |-> None]
\* a polyface of two vertices, the segment from p to q
SegmentFace(p, q, i, j, e) ==
    [vertices |-> <<p, q>>, vertices_id |-> <<Vertex(i), Vertex(j)>>,
     edges_id |-> <<>>, feature_id |-> Edge(e), normal |-> None]

\* what shape A's support_face_toward / support_feature_toward may return
FacesA ==
    {VertexFace(<<0, 0>>, 0), SegmentFace(<<0, 0>>, <<MaxB, 0>>, 0, 1, 0)}
\* what shape B's may return: a vertex, the segments along A's face, the
\* segments standing on it (parallel to the normal), a segment beside it, and
\* a standing segment that reports one id for both vertices
FacesB ==
    {VertexFace(<<0, 1>>, 0)}
        \cup {SegmentFace(<<s[1], 1>>, <<s[2], 1>>, 0, 1, 0) :
                s \in {t \in (0..MaxB) \X (0..MaxB) : t[1] < t[2]}}
        \cup {SegmentFace(<<x, 1>>, <<x, 2>>, 0, 1, 0) : x \in 0..MaxB}
        \cup {SegmentFace(<<MaxB + 1, 1>>, <<MaxB + 2, 1>>, 0, 1, 0)}
        \cup {SegmentFace(<<1, 1>>, <<1, 2>>, 0, 0, 0)}

\* the polyfaces clip_polyfaces is applied to on its own
GridPoints == (0..MaxX) \X (0..MaxY)
GridFaces ==
    {EmptyPolyface} \cup {VertexFace(p, 0) : p \in GridPoints}
        \cup {SegmentFace(s[1], s[2], 0, 1, 0) :
                s \in {t \in GridPoints \X GridPoints : t[1] # t[2]}}
ClipNormals == {<<0, 1>>, <<1, 0>>, <<0, -1>>, <<-1, 0>>}

\* no triangle and no point: the generator's specifications make no point
\* query
NoPointQuery ==
    [a |-> <<0, 0>>, b |-> <<0, 0>>, c |-> <<0, 0>>, pt |-> <<0, 0>>,
     solid |-> FALSE, out |-> None]

(***************************************************************************)
(* update.                                                                 *)
(***************************************************************************)
NoCall ==
    [kind |-> "none", sma |-> FALSE, smb |-> FALSE, result |-> NotQueried,
     face1 |-> EmptyPolyface, face2 |-> EmptyPolyface, ret |-> FALSE,
     queried |-> FALSE, clipped |-> <<>>, navoid |-> 0, panicked |-> FALSE]

\* mutant: one support map is enough
update_applicable_either(sma, smb) == sma \/ smb

\* line 357: both shapes expose a support map
update_applicable(sma, smb) == sma /\ smb

\* lines 377-378 and 385-400: the polyfaces after clear() and the shapes'
\* support_face_toward / support_feature_toward
update_manifold(result, face) ==
    IF result.kind = "Projection" THEN face ELSE EmptyPolyface

\* mutant: NoIntersection does not store its direction
update_last_gjk_dir_projection_only(old, result) ==
    IF result.kind = "Projection" THEN Some(result.dir) ELSE old

\* lines 382 and 412: the warm-start direction
update_last_gjk_dir(old, result) ==
    CASE result.kind = "Projection" -> Some(result.dir)
      [] result.kind = "NoIntersection" -> Some(result.dir)
      [] OTHER -> old

\* mutant: the witness contact is added whatever clipping produced
update_fallback_always(result, clipped, m1, m2) ==
    Append(clipped, [contact |-> result.contact, f1 |-> m1.feature_id,
                     f2 |-> m2.feature_id])

\* lines 404-410: the witness contact when clipping produced nothing
update_fallback(result, clipped, m1, m2) ==
    IF Len(clipped) = 0
    THEN <<[contact |-> result.contact, f1 |-> m1.feature_id,
            f2 |-> m2.feature_id]>>
    ELSE clipped

\* lines 376-414: new_contacts when the match ends
update_new_contacts(result, m1, m2) ==
    IF result.kind = "Projection"
    THEN update_fallback(result, clip_polyfaces(m1, m2, result.contact.normal),
                         m1, m2)
    ELSE <<>>

\* mutant: an inconclusive result returns before the commit
update_commit_unless_indeterminate(cm, ch, al, result, raw, m1, m2) ==
    IF result.kind = "Indeterminate"
    THEN [cm |-> cm, cache |-> ch, ids |-> al, navoid |-> 0,
          panicked |-> FALSE]
    ELSE save_new_contacts_as_contact_manifold(cm, al, raw, m1, m2)

\* line 416: the commit of new_contacts
update_commit(cm, ch, al, result, raw, m1, m2) ==
    save_new_contacts_as_contact_manifold(cm, al, raw, m1, m2)

\* the inputs of the last update equal those of the one before
SameInputs(c, sma, smb, result, face1, face2) ==
    /\ c.kind = "update"
    /\ c.sma = sma /\ c.smb = smb
    /\ c.result = result
    /\ c.face1 = face1 /\ c.face2 = face2

\* update on an inapplicable pair, lines 419-421
UpdateInapplicable(sma, smb) ==
    /\ ~update_applicable(sma, smb)
    /\ call' = [NoCall EXCEPT !.kind = "update", !.sma = sma, !.smb = smb]
    /\ repeated' = SameInputs(call, sma, smb, NotQueried, EmptyPolyface,
                              EmptyPolyface)
    /\ UNCHANGED <<dimension, last_gjk_dir, contact_manifold, cache,
                   new_contacts, manifold1, manifold2, ids, pushed,
                   point_query>>

\* update on a pair of support-mapped shapes, lines 357-418; a panic of
\* contact_kinematic ends the call inside the loop of line 94, with the
\* records pushed so far in the manifold and no value returned
UpdateApplicable(sma, smb, result, face1, face2) ==
    /\ update_applicable(sma, smb)
    /\ \E m1 \in {update_manifold(result, face1)},
          m2 \in {update_manifold(result, face2)} :
         \E clipped \in {IF result.kind = "Projection"
                         THEN clip_polyfaces(m1, m2, result.contact.normal)
                         ELSE <<>>},
            raw \in {update_new_contacts(result, m1, m2)} :
           \E st \in {update_commit(contact_manifold, cache, ids, result,
                                    raw, m1, m2)} :
             /\ st.ids.curr <= IF dimension = 2 THEN MaxId ELSE MaxId3
             /\ last_gjk_dir' = update_last_gjk_dir(last_gjk_dir, result)
             /\ manifold1' = m1
             /\ manifold2' = m2
             /\ new_contacts' = <<>>
             /\ contact_manifold' = st.cm
             /\ cache' = st.cache
             /\ ids' = st.ids
             /\ pushed' = raw
             /\ call' = [kind |-> "update", sma |-> sma, smb |-> smb,
                         result |-> result, face1 |-> m1, face2 |-> m2,
                         ret |-> ~st.panicked, queried |-> TRUE,
                         clipped |-> clipped, navoid |-> st.navoid,
                         panicked |-> st.panicked]
             /\ repeated' = SameInputs(call, sma, smb, result, m1, m2)
    /\ UNCHANGED <<dimension, point_query>>

\* num_contacts, lines 425-427
num_contacts == len(contact_manifold)

\* contacts, lines 430-434: the list out after the call
contacts(out) ==
    IF len(contact_manifold) # 0 THEN Append(out, contact_manifold) ELSE out

Init ==
    /\ dimension = 2
    /\ last_gjk_dir = None
    /\ contact_manifold = <<>>
    /\ cache = {}
    /\ new_contacts = <<>>
    /\ manifold1 = EmptyPolyface
    /\ manifold2 = EmptyPolyface
    /\ ids = NewIdAllocator
    /\ pushed = <<>>
    /\ call = NoCall
    /\ repeated = FALSE
    /\ point_query = NoPointQuery

\* the polyfaces a shape hands over: asked only on a Projection result
SupportFaces(result, faces) ==
    IF result.kind = "Projection" THEN faces ELSE {EmptyPolyface}

Next ==
    \/ \E sma \in BOOLEAN, smb \in BOOLEAN : UpdateInapplicable(sma, smb)
    \/ \E sma \in BOOLEAN, smb \in BOOLEAN, result \in QueryResults :
         \E face1 \in SupportFaces(result, FacesA),
            face2 \in SupportFaces(result, FacesB) :
              UpdateApplicable(sma, smb, result, face1, face2)

Spec == Init /\ [][Next]_vars

(***************************************************************************)
(* clip_polyfaces on its own: the two polyfaces are drawn from the grid    *)
(* and the routine is applied once.                                        *)
(***************************************************************************)
ClipInit ==
    /\ dimension = 2
    /\ last_gjk_dir = None
    /\ contact_manifold = <<>>
    /\ cache = {}
    /\ new_contacts = <<>>
    /\ manifold1 \in GridFaces
    /\ manifold2 \in GridFaces
    /\ ids = NewIdAllocator
    /\ pushed = <<>>
    /\ call = NoCall
    /\ repeated = FALSE
    /\ point_query = NoPointQuery

ClipCall(normal) ==
    /\ call.kind = "none"
    /\ new_contacts' = new_contacts \o clip_polyfaces(manifold1, manifold2,
                                                        normal)
    /\ call' = [NoCall EXCEPT !.kind = "clip",
                              !.result = Projection(WitnessContact(normal, 1),
                                                    normal)]
    /\ UNCHANGED <<dimension, last_gjk_dir, contact_manifold, cache,
                   manifold1, manifold2, ids, pushed, repeated, point_query>>

ClipNext == \E normal \in ClipNormals : ClipCall(normal)

ClipSpec == ClipInit /\ [][ClipNext]_vars

(***************************************************************************)
(* The 3D instantiation: the shapes' polyfaces.                            *)
(***************************************************************************)
\* a polyface of two vertices with its one edge
EdgeFace(p, q, i, j, e) ==
    [vertices |-> <<p, q>>, vertices_id |-> <<Vertex(i), Vertex(j)>>,
     edges_id |-> <<Edge(e)>>, feature_id |-> Edge(e), normal |-> None]
\* a face: the vertex loop vs, vertex i and edge i numbered i - 1, the
\* outward normal n
PolygonFace(vs, n, f) ==
    [vertices |-> vs,
     vertices_id |-> [i \in DOMAIN vs |-> Vertex(i - 1)],
     edges_id |-> [i \in DOMAIN vs |-> Edge(i - 1)],
     feature_id |-> Face(f), normal |-> Some(n)]
\* the rectangle [x0, x1] x [y0, y1] at height z
Rect(x0, y0, x1, y1, z, n) ==
    PolygonFace(<<<<x0, y0, z>>, <<x1, y0, z>>, <<x1, y1, z>>, <<x0, y1, z>>>>,
                n, 0)
\* the same rectangle, its vertex loop turning the other way
RectCw(x0, y0, x1, y1, z, n) ==
    PolygonFace(<<<<x0, y0, z>>, <<x0, y1, z>>, <<x1, y1, z>>, <<x1, y0, z>>>>,
                n, 0)
\* the rectangle over [x0, x1] x [y0, y1] in the plane z = 1 + x
TiltedRect(x0, y0, x1, y1) ==
    PolygonFace(<<<<x0, y0, 1 + x0>>, <<x1, y0, 1 + x1>>,
                  <<x1, y1, 1 + x1>>, <<x0, y1, 1 + x0>>>>, <<1, 0, -1>>, 0)

\* shape A's polyfaces in clip_polyfaces on its own: a vertex, two edges, two
\* rectangles and a triangle at height 0
Clip3FacesA ==
    {VertexFace(<<1, 1, 0>>, 0),
     EdgeFace(<<0, 1, 0>>, <<2, 1, 0>>, 0, 1, 0),
     EdgeFace(<<1, 1, 0>>, <<3, 1, 0>>, 0, 1, 0),
     Rect(0, 0, 2, 2, 0, <<0, 0, 1>>),
     Rect(0, 0, 3, 3, 0, <<0, 0, 1>>),
     PolygonFace(<<<<0, 0, 0>>, <<2, 0, 0>>, <<0, 2, 0>>>>, <<0, 0, 1>>, 0)}
\* shape B's: a vertex, edges, squares of side 1 and 2 at height 1 shifted
\* over A's, and tilted rectangles
Clip3FacesB ==
    {VertexFace(<<1, 1, 1>>, 0),
     EdgeFace(<<1, 0, 1>>, <<1, 2, 1>>, 0, 1, 0),
     EdgeFace(<<1, 1, 1>>, <<1, 3, 1>>, 0, 1, 0),
     EdgeFace(<<1, 1, 1>>, <<1, 3, 2>>, 0, 1, 0)}
        \cup {Rect(dx, dy, dx + w, dy + w, 1, <<0, 0, -1>>) :
                dx \in 0..MaxShift, dy \in 0..MaxShift, w \in 1..2}
        \cup {RectCw(dx, 1, dx + 2, 3, 1, <<0, 0, -1>>) : dx \in 0..MaxShift}
        \cup {TiltedRect(dx, 1, dx + 2, 3) : dx \in 0..MaxShift}
ClipNormals3 == {<<0, 0, 1>>, <<0, 0, -1>>}

\* what shape A's support_face_toward / support_feature_toward may return in
\* the updates: a vertex, an edge, a face
Faces3A ==
    {VertexFace(<<1, 1, 0>>, 0),
     EdgeFace(<<0, 1, 0>>, <<2, 1, 0>>, 0, 1, 0),
     Rect(0, 0, 2, 2, 0, <<0, 0, 1>>)}
\* what shape B's may return: an edge, a face over A's, a face beside A's;
\* and two polyfaces that break the shape's contract, an edge feature whose
\* id is not the id of its edge and an edge of no length
Faces3B ==
    {EdgeFace(<<1, 1, 1>>, <<1, 3, 1>>, 0, 1, 0),
     Rect(1, 1, 3, 3, 1, <<0, 0, -1>>),
     Rect(MaxShift, 1, MaxShift + 2, 3, 1, <<0, 0, -1>>),
     [EdgeFace(<<1, 1, 1>>, <<1, 3, 1>>, 0, 1, 0) EXCEPT !.feature_id = Edge(1)],
     EdgeFace(<<1, 1, 1>>, <<1, 1, 1>>, 0, 1, 0)}
Normals3 == {<<0, 0, 1>>}
ProjectionResults3 ==
    {Projection([WitnessContact(<<0, 0>>, d) EXCEPT
                    !.world1 = Exact(<<1, 1, 0>>),
                    !.world2 = Exact(<<1, 1, -d>>),
                    !.normal = n], n) : n \in Normals3, d \in {1}}
QueryResults3 ==
    ProjectionResults3 \cup {NoIntersection(<<0, 0, 1>>), Indeterminate}

Init3D ==
    /\ dimension = 3
    /\ last_gjk_dir = None
    /\ contact_manifold = <<>>
    /\ cache = {}
    /\ new_contacts = <<>>
    /\ manifold1 = EmptyPolyface
    /\ manifold2 = EmptyPolyface
    /\ ids = NewIdAllocator
    /\ pushed = <<>>
    /\ call = NoCall
    /\ repeated = FALSE
    /\ point_query = NoPointQuery

Next3D ==
    \/ \E sma \in BOOLEAN, smb \in BOOLEAN : UpdateInapplicable(sma, smb)
    \/ \E sma \in BOOLEAN, smb \in BOOLEAN, result \in QueryResults3 :
         \E face1 \in SupportFaces(result, Faces3A),
            face2 \in SupportFaces(result, Faces3B) :
              UpdateApplicable(sma, smb, result, face1, face2)

Spec3D == Init3D /\ [][Next3D]_vars

ClipInit3D ==
    /\ dimension = 3
    /\ last_gjk_dir = None
    /\ contact_manifold = <<>>
    /\ cache = {}
    /\ new_contacts = <<>>
    /\ manifold1 \in Clip3FacesA
    /\ manifold2 \in Clip3FacesB
    /\ ids = NewIdAllocator
    /\ pushed = <<>>
    /\ call = NoCall
    /\ repeated = FALSE
    /\ point_query = NoPointQuery

ClipNext3D == \E normal \in ClipNormals3 : ClipCall(normal)

Clip3DSpec == ClipInit3D /\ [][ClipNext3D]_vars

(***************************************************************************)
(* Triangle::project_point_with_location, 2D instantiation, with the       *)
(* identity for the isometry m.  Scalars are exact fractions n/d, d > 0.   *)
(***************************************************************************)
\* x < y
Less(x, y) == x.n * y.d < y.n * x.d
\* x = y
SameScalar(x, y) == x.n * y.d = y.n * x.d
\* k - x
Minus(k, x) == Div(k * x.d - x.n, x.d)
\* k - (l * x * x)
MinusScaledSquare(k, l, x) == Div(k * x.d * x.d - l * x.n * x.n, x.d * x.d)
norm_squared(u) == Dot(u, u)
perp2(v, w) == v[1] * w[2] - v[2] * w[1]

\* TrianglePointLocation
OnVertex(i) == <<"OnVertex", i>>
OnEdge(i, bcoords) == <<"OnEdge", i, bcoords>>
OnSolid == <<"OnSolid">>

\* res.axpy(k, x, kres): res = k * x + kres * res
axpy(res, k, x, kres) ==
    [n |-> Comb(x, k.n * kres.d, res, kres.n * k.d), d |-> k.d * kres.d]

\* compute_result, lines 9-17, 2D branch
compute_result(pt, proj) ==
    [is_inside |-> SamePoint(Exact(pt), proj), point |-> proj]

\* stable_check_edges_voronoi, lines 129-148
stable_check_edges_voronoi(ab, ac, bc, ap, bp, cp, ab_ap, ab_bp, ac_ap, ac_cp, ac_bp, ab_cp) ==
    LET n == perp2(ab, ac)
        vc == n * perp2(ab, ap)
        vb == (-n) * perp2(ac, cp)
        va == n * perp2(bc, bp)
    IN  IF vc < 0 /\ ab_ap >= 0 /\ ab_bp <= 0 THEN <<"OnAB">>
        ELSE IF vb < 0 /\ ac_ap >= 0 /\ ac_cp <= 0 THEN <<"OnAC">>
        ELSE IF va < 0 /\ ac_bp - ab_bp >= 0 /\ ab_cp - ac_cp >= 0
        THEN <<"OnBC">>
        ELSE <<"OnFace", va, vb, vc>>

\* the projection on the edge from x to y with parameter t and location
\* OnEdge(i, [1 - t, t])
EdgeResult(pt, x, y, t, i) ==
    LET bcoords == <<Minus(1, t), t>>
    IN  [proj |-> compute_result(pt, axpy(x, bcoords[2], y, bcoords[1])),
         loc |-> OnEdge(i, bcoords)]

\* lines 272-322: the point is in the face's region and the triangle is not
\* solid
ProjectOnClosestEdge(a, b, c, ab, ac, ap, bp, ab_ap, ab_bp, ac_ap, ac_cp, ac_bp, ab_cp) ==
    LET v == Div(ab_ap, ab_ap - ab_bp)
        w == Div(ac_ap, ac_ap - ac_cp)
        u == Div(ac_bp - ab_bp, ac_bp - ab_bp + ab_cp - ac_cp)
        bc == Sub(c, b)
        d_ab == MinusScaledSquare(norm_squared(ap), norm_squared(ab), v)
        d_ac == MinusScaledSquare(norm_squared(ap), norm_squared(ac), u)
        d_bc == MinusScaledSquare(norm_squared(bp), norm_squared(bc), w)
        onto(x, y, t, i) ==
            LET bcoords == <<Minus(1, t), t>>
            IN  [proj |-> [is_inside |-> TRUE,
                           point |-> axpy(x, bcoords[2], y, bcoords[1])],
                 loc |-> OnEdge(i, bcoords)]
    IN  IF Less(d_ab, d_ac)
        THEN IF Less(d_ab, d_bc)
             THEN onto(a, b, v, 0)
             ELSE onto(b, c, u, 1)
        ELSE IF Less(d_ac, d_bc)
             THEN onto(a, c, w, 2)
             ELSE onto(b, c, u, 1)

\* lines 52-324
project_point_with_location(a, b, c, pt, solid) ==
    LET p == pt
        ab == Sub(b, a)
        ac == Sub(c, a)
        ap == Sub(p, a)
        ab_ap == Dot(ab, ap)
        ac_ap == Dot(ac, ap)
        bp == Sub(p, b)
        ab_bp == Dot(ab, bp)
        ac_bp == Dot(ac, bp)
        cp == Sub(p, c)
        ab_cp == Dot(ab, cp)
        ac_cp == Dot(ac, cp)
        bc == Sub(c, b)
        info == stable_check_edges_voronoi(ab, ac, bc, ap, bp, cp, ab_ap,
                                           ab_bp, ac_ap, ac_cp, ac_bp,
                                           ab_cp)
    IN  IF ab_ap <= 0 /\ ac_ap <= 0
        THEN [proj |-> compute_result(pt, Exact(a)), loc |-> OnVertex(0)]
        ELSE IF ab_bp >= 0 /\ ac_bp <= ab_bp
        THEN [proj |-> compute_result(pt, Exact(b)), loc |-> OnVertex(1)]
        ELSE IF ac_cp >= 0 /\ ab_cp <= ac_cp
        THEN [proj |-> compute_result(pt, Exact(c)), loc |-> OnVertex(2)]
        ELSE IF info[1] = "OnAB"
        THEN EdgeResult(pt, a, b, Div(ab_ap, norm_squared(ab)), 0)
        ELSE IF info[1] = "OnAC"
        THEN EdgeResult(pt, a, c, Div(ac_ap, norm_squared(ac)), 2)
        ELSE IF info[1] = "OnBC"
        THEN EdgeResult(pt, b, c, Div(Dot(bc, bp), norm_squared(bc)), 1)
        ELSE IF solid
        THEN [proj |-> [is_inside |-> TRUE, point |-> Exact(pt)],
              loc |-> OnSolid]
        ELSE ProjectOnClosestEdge(a, b, c, ab, ac, ap, bp, ab_ap, ab_bp,
                                  ac_ap, ac_cp, ac_bp, ab_cp)

\* the points of the grid the triangles and the projected points are drawn
\* from
Grid == (0..MaxT) \X (0..MaxT)

\* the query for the projection of pt on the triangle a, b, c, before the
\* call
PointQuery(a, b, c, pt) ==
    [a |-> a, b |-> b, c |-> c, pt |-> pt, solid |-> FALSE, out |-> None]

\* one call of project_point_with_location
ProjectPoint(solid) ==
    /\ ~point_query.out.some
    /\ point_query' =
           [point_query EXCEPT
               !.solid = solid,
               !.out = Some(project_point_with_location(
                                point_query.a, point_query.b, point_query.c,
                                point_query.pt, solid))]
    /\ UNCHANGED <<dimension, last_gjk_dir, contact_manifold, cache,
                   new_contacts, manifold1, manifold2, ids, pushed, call,
                   repeated>>

TriangleInit ==
    /\ dimension = 2
    /\ last_gjk_dir = None
    /\ contact_manifold = <<>>
    /\ cache = {}
    /\ new_contacts = <<>>
    /\ manifold1 = EmptyPolyface
    /\ manifold2 = EmptyPolyface
    /\ ids = NewIdAllocator
    /\ pushed = <<>>
    /\ call = NoCall
    /\ repeated = FALSE
    /\ \E a \in Grid, b \in Grid, c \in Grid, pt \in Grid :
           \* the three vertices are not aligned
           /\ perp2(Sub(b, a), Sub(c, a)) # 0
           /\ point_query = PointQuery(a, b, c, pt)

TriangleNext == \E solid \in BOOLEAN : ProjectPoint(solid)

TriangleSpec == TriangleInit /\ [][TriangleNext]_vars

(***************************************************************************)
(* Properties.                                                             *)
(***************************************************************************)
\* the feature-id pairs of a list of records or of raw contacts
Pairs(cm) == {<<cm[i].f1, cm[i].f2>> : i \in DOMAIN cm}
\* the feature-id pairs of a list of records, each with its slot id
Slots(cm) == {<<cm[i].f1, cm[i].f2, cm[i].id>> : i \in DOMAIN cm}
\* the slot ids of a list of records
SlotIds(cm) == {cm[i].id : i \in DOMAIN cm}

\* C1 as stated: when the closest-point query returns an inconclusive result,
\* update leaves the manifold as it was: every record held before the call
\* (feature-id pair and slot id) is held after it, and no slot id is released.
C1_Original ==
    [][(call'.kind = "update" /\ call'.result.kind = "Indeterminate")
         => /\ Slots(contact_manifold) \subseteq Slots(contact_manifold')
            /\ ids' = ids]_vars

\* C1, amended: when the closest-point query returns an inconclusive result,
\* update pushes no contact and leaves the warm-start direction alone, but it
\* still commits the empty contact list: the manifold is empty after the
\* call, the records it held are kept only as the snapshot, and every slot id
\* they held is in the allocator's pool.
C1_IndeterminateEmptiesManifold ==
    [][(call'.kind = "update" /\ call'.result.kind = "Indeterminate")
         => /\ contact_manifold' = <<>>
            /\ pushed' = <<>>
            /\ last_gjk_dir' = last_gjk_dir
            /\ cache' = Slots(contact_manifold)
            /\ SlotIds(contact_manifold) \subseteq ids'.free]_vars

\* an inconclusive update has emptied a manifold that held records
C1_Witness ==
    /\ call.kind = "update" /\ call.result.kind = "Indeterminate"
    /\ cache # {}
    /\ contact_manifold = <<>>

\* C2: update returns false exactly when one of the shapes exposes no support
\* map, and a call that returns false has not made the query and has changed
\* neither the manifold cache, the warm-start direction, the scratch buffers
\* nor the id allocator.
C2_InapplicableDoesNothing ==
    [][call'.kind = "update"
         => /\ call'.ret <=> (call'.sma /\ call'.smb)
            /\ ~call'.ret
                 => /\ ~call'.queried
                    /\ UNCHANGED <<contact_manifold, cache, last_gjk_dir,
                                   new_contacts, manifold1, manifold2,
                                   ids>>]_vars

\* update has returned false on a generator whose manifold holds records
C2_Witness ==
    /\ call.kind = "update" /\ ~call.ret
    /\ call.sma # call.smb
    /\ contact_manifold # <<>>

\* C3: after an update whose query returned NoIntersection(dir), the
\* warm-start direction is dir, num_contacts() is 0 and contacts() appends
\* nothing, whatever the manifold held before.
C3_NoIntersectionEmpties ==
    (call.kind = "update" /\ call.result.kind = "NoIntersection")
        => /\ last_gjk_dir = Some(call.result.dir)
           /\ num_contacts = 0
           /\ contacts(<<>>) = <<>>

\* a NoIntersection update on a manifold that held records, with a direction
\* other than the contact normals
C3_Witness ==
    /\ call.kind = "update" /\ call.result.kind = "NoIntersection"
    /\ call.result.dir \notin Normals
    /\ cache # {}

\* C4: a record whose feature-id pair was in the manifold after the previous
\* update keeps that record's slot id; a record whose pair was not gets an id
\* the allocator handed out (one of its pool, of the ids just released or a
\* new one), which the allocator no longer holds.
C4_FeatureIdPersistence ==
    [][(call'.kind = "update" /\ call'.ret)
         => \A j \in DOMAIN contact_manifold' :
              LET r == contact_manifold'[j]
                  old == {i \in DOMAIN contact_manifold :
                            /\ contact_manifold[i].f1 = r.f1
                            /\ contact_manifold[i].f2 = r.f2}
              IN  IF old # {}
                  THEN \A i \in old : r.id = contact_manifold[i].id
                  ELSE /\ \/ r.id \in ids.free \cup SlotIds(contact_manifold)
                          \/ r.id >= ids.curr
                       /\ r.id \notin ids'.free
                       /\ r.id < ids'.curr]_vars

\* an update has committed one pair of the previous frame and one new pair
C4_Witness ==
    /\ call.kind = "update" /\ call.ret
    /\ call.navoid = 1
    /\ Len(contact_manifold) = 2
    /\ \E i \in DOMAIN contact_manifold :
         <<contact_manifold[i].f1, contact_manifold[i].f2,
           contact_manifold[i].id>> \in cache
    /\ \E i \in DOMAIN contact_manifold :
         CachedIds(cache, contact_manifold[i].f1, contact_manifold[i].f2) = {}

\* C5: a feature-id pair held by the manifold before an update and not among
\* the raw contacts that update commits is not in the manifold after it.
C5_Eviction ==
    [][(call'.kind = "update" /\ call'.ret)
         => \A i \in DOMAIN contact_manifold :
              <<contact_manifold[i].f1, contact_manifold[i].f2>>
                    \notin Pairs(pushed')
                 => <<contact_manifold[i].f1, contact_manifold[i].f2>>
                       \notin Pairs(contact_manifold')]_vars

\* an update that produced contacts has evicted a pair of the previous frame
C5_Witness ==
    /\ call.kind = "update" /\ call.ret
    /\ contact_manifold # <<>>
    /\ \E e \in cache : <<e[1], e[2]>> \notin Pairs(contact_manifold)

\* C6: the manifold holds at most one record per feature-id pair, and
\* num_contacts() is the number of distinct feature-id pairs pushed since the
\* last save_cache_and_clear.
C6_OneRecordPerPair ==
    /\ \A i \in DOMAIN contact_manifold, j \in DOMAIN contact_manifold :
         (/\ contact_manifold[i].f1 = contact_manifold[j].f1
          /\ contact_manifold[i].f2 = contact_manifold[j].f2) => i = j
    /\ num_contacts = Cardinality(Pairs(pushed))

\* clipping emitted two raw contacts for one feature-id pair
C6_Witness ==
    /\ call.kind = "update" /\ call.ret
    /\ Len(call.clipped) = 2
    /\ pushed = call.clipped
    /\ Cardinality(Pairs(pushed)) = 1
    /\ num_contacts = 1

\* C7: an update with the inputs of the update before it (same shapes'
\* polyfaces, same query result) leaves the manifold with the same number of
\* contacts, the same feature-id pairs and the same slot ids.
C7_Idempotence ==
    [][(/\ call'.kind = "update" /\ call'.ret
        /\ call.ret
        /\ SameInputs(call, call'.sma, call'.smb, call'.result, call'.face1,
                      call'.face2))
         => /\ len(contact_manifold') = len(contact_manifold)
            /\ Slots(contact_manifold') = Slots(contact_manifold)]_vars

\* the same update has run twice and left two contacts
C7_Witness ==
    /\ repeated /\ call.kind = "update" /\ call.ret
    /\ num_contacts = 2

\* C8: on a Projection result, when clipping produced no raw contact update
\* commits exactly one contact, the query's witness contact under the two
\* polyfaces' whole-feature ids; when clipping produced raw contacts it
\* commits those and the witness contact is not added.
C8_WitnessFallback ==
    (call.kind = "update" /\ call.result.kind = "Projection")
        => IF Len(call.clipped) = 0
           THEN /\ pushed = <<[contact |-> call.result.contact,
                               f1 |-> manifold1.feature_id,
                               f2 |-> manifold2.feature_id]>>
                /\ num_contacts = 1
                /\ contact_manifold[1].contact = call.result.contact
                /\ contact_manifold[1].f1 = call.face1.feature_id
                /\ contact_manifold[1].f2 = call.face2.feature_id
           ELSE /\ pushed = call.clipped
                /\ Pairs(contact_manifold) = Pairs(call.clipped)
                /\ <<call.face1.feature_id, call.face2.feature_id>>
                      \notin Pairs(contact_manifold)

\* two segments whose projected ranges are disjoint: only the witness contact
C8_Witness ==
    /\ call.kind = "update" /\ call.result.kind = "Projection"
    /\ Len(manifold1.vertices) = 2 /\ Len(manifold2.vertices) = 2
    /\ call.clipped = <<>>
    /\ num_contacts = 1

\* the normal clip_polyfaces was called with
ClipNormal == call.result.contact.normal
\* the axis orthogonal to it
ClipOrtho == <<-ClipNormal[2], ClipNormal[1]>>
Max(S) == CHOOSE x \in S : \A y \in S : x >= y
\* the ends of a two-vertex polyface's projected range on that axis
ProjLow(m) == Min({Dot(m.vertices[k], ClipOrtho) : k \in 1..2})
ProjHigh(m) == Max({Dot(m.vertices[k], ClipOrtho) : k \in 1..2})
RangesDisjoint ==
    \/ ProjLow(manifold2) > ProjHigh(manifold1)
    \/ ProjLow(manifold1) > ProjHigh(manifold2)

\* C9: in 2D clip_polyfaces emits no raw contact when a polyface has at most
\* one vertex or the two projected ranges are disjoint, and exactly two raw
\* contacts otherwise (ranges overlapping or touching).
C9_ZeroOrTwoContacts ==
    call.kind = "clip"
        => Len(new_contacts) =
             IF Len(manifold1.vertices) <= 1 \/ Len(manifold2.vertices) <= 1
             THEN 0
             ELSE IF RangesDisjoint THEN 0 ELSE 2

\* two ranges of non-zero length that only touch: two raw contacts
C9_Witness ==
    /\ call.kind = "clip"
    /\ Len(manifold1.vertices) = 2 /\ Len(manifold2.vertices) = 2
    /\ ProjLow(manifold1) < ProjHigh(manifold1)
    /\ ProjLow(manifold2) < ProjHigh(manifold2)
    /\ ProjHigh(manifold1) = ProjLow(manifold2)
    /\ Len(new_contacts) = 2

\* the fraction point q projects to the coordinate t on the orthogonal axis
ProjectsTo(q, t) == IsFinite(q) /\ Dot(q.n, ClipOrtho) = t * q.d
\* the fraction point q is a vertex of the polyface m
IsVertexOf(q, m) == \E k \in 1..2 : SamePoint(q, Exact(m.vertices[k]))
\* the fraction point q lies on the segment between m's two vertices
OnSegment(q, m) ==
    LET a == m.vertices[1]
        b == m.vertices[2]
    IN  /\ IsFinite(q)
        /\ (q.n[1] - a[1] * q.d) * (b[2] - a[2])
             = (q.n[2] - a[2] * q.d) * (b[1] - a[1])
        /\ \A k \in 1..2 :
             /\ Min({a[k], b[k]}) * q.d <= q.n[k]
             /\ q.n[k] <= Max({a[k], b[k]}) * q.d
\* the fraction point q is the midpoint of m's two vertices
IsMidpoint(q, m) ==
    /\ IsFinite(q)
    /\ \A k \in 1..2 : 2 * q.n[k] = (m.vertices[1][k] + m.vertices[2][k]) * q.d

\* C10 as stated: when the projected ranges overlap, the two contacts sit at
\* the two ends of the overlap interval [max(low1, low2), min(high1, high2)];
\* in each, one point is a segment endpoint and the other lies on the other
\* segment at the same projected coordinate; and A = [(0,0),(2,0)],
\* B = [(1,0),(3,0)] with normal (0,1) give contacts at x = 1 and x = 2, each
\* interpolated at the middle of its segment.
C10_Original ==
    (call.kind = "clip" /\ Len(new_contacts) = 2)
        => /\ \A k \in 1..2 :
                LET c == new_contacts[k].contact
                    t == IF k = 1
                         THEN Max({ProjLow(manifold1), ProjLow(manifold2)})
                         ELSE Min({ProjHigh(manifold1), ProjHigh(manifold2)})
                IN  /\ ProjectsTo(c.world1, t)
                    /\ ProjectsTo(c.world2, t)
                    /\ \/ IsVertexOf(c.world1, manifold1)
                            /\ OnSegment(c.world2, manifold2)
                       \/ IsVertexOf(c.world2, manifold2)
                            /\ OnSegment(c.world1, manifold1)
           /\ (/\ manifold1.vertices = <<<<0, 0>>, <<2, 0>>>>
               /\ manifold2.vertices = <<<<1, 0>>, <<3, 0>>>>
               /\ ClipNormal = <<0, 1>>)
                 => /\ {new_contacts[k].contact.world1 : k \in 1..2}
                         = {Exact(<<2, 0>>), [n |-> <<2, 0>>, d |-> 2]}
                    /\ \A k \in 1..2 :
                         LET c == new_contacts[k].contact
                         IN  \/ IsVertexOf(c.world1, manifold1)
                                  /\ IsMidpoint(c.world2, manifold2)
                             \/ IsVertexOf(c.world2, manifold2)
                                  /\ IsMidpoint(c.world1, manifold1)

\* C15 as stated: in 2D no polyfaces and normal make clip_polyfaces divide by
\* zero: every contact it emits has two finite points and a finite depth, that
\* is, every interpolation it made used a non-zero projected length.
C15_Original ==
    call.kind = "clip"
        => \A k \in DOMAIN new_contacts :
             /\ IsFinite(new_contacts[k].contact.world1)
             /\ IsFinite(new_contacts[k].contact.world2)
             /\ new_contacts[k].contact.depth.d # 0

\* the vertex of the two-vertex polyface m that supplied the exact point q
\* of a contact at the projected coordinate t carries the feature id f
StampedVertex(m, q, t, f) ==
    \E j \in 1..2 :
        /\ q = Exact(m.vertices[j])
        /\ Dot(Sub(m.vertices[j], manifold1.vertices[1]), ClipOrtho) = t
        /\ f = m.vertices_id[j]
\* the ends of a two-vertex polyface's projected range, relative to the first
\* vertex of shape A's polyface
RelLow(m) == ProjLow(m) - Dot(manifold1.vertices[1], ClipOrtho)
RelHigh(m) == ProjHigh(m) - Dot(manifold1.vertices[1], ClipOrtho)

\* C17: each 2D raw contact carries the vertex id of the side that supplied
\* the exact endpoint (the id of that very vertex, swapped or not) and the
\* whole-feature id of the interpolated side; side B supplies the endpoint
\* only where its bound is strictly inside A's range, so on equal bounds side
\* A supplies it and side B is interpolated.
C17_FeatureStamps ==
    (call.kind = "clip" /\ Len(new_contacts) = 2)
        => /\ LET c == new_contacts[1]
               IN  IF RelLow(manifold2) > RelLow(manifold1)
                   THEN /\ c.f1 = manifold1.feature_id
                        /\ StampedVertex(manifold2, c.contact.world2,
                                         RelLow(manifold2), c.f2)
                   ELSE /\ c.f2 = manifold2.feature_id
                        /\ StampedVertex(manifold1, c.contact.world1,
                                         RelLow(manifold1), c.f1)
           /\ LET c == new_contacts[2]
               IN  IF RelHigh(manifold2) < RelHigh(manifold1)
                   THEN /\ c.f1 = manifold1.feature_id
                        /\ StampedVertex(manifold2, c.contact.world2,
                                         RelHigh(manifold2), c.f2)
                   ELSE /\ c.f2 = manifold2.feature_id
                        /\ StampedVertex(manifold1, c.contact.world1,
                                         RelHigh(manifold1), c.f1)

\* both segments were given in descending projected order, their lower
\* bounds coincide and B ends strictly inside A: A's second vertex is the
\* exact point of the first contact, B's first vertex that of the second
C17_Witness ==
    /\ call.kind = "clip" /\ Len(new_contacts) = 2
    /\ Dot(manifold1.vertices[1], ClipOrtho) > Dot(manifold1.vertices[2], ClipOrtho)
    /\ Dot(manifold2.vertices[1], ClipOrtho) > Dot(manifold2.vertices[2], ClipOrtho)
    /\ RelLow(manifold1) = RelLow(manifold2)
    /\ RelHigh(manifold2) < RelHigh(manifold1)
    /\ new_contacts[1].f1 = manifold1.vertices_id[2]
    /\ new_contacts[2].f2 = manifold2.vertices_id[1]

\* C14 as stated: after any sequence of updates every slot id held by a
\* record of the manifold is held by that record only and is not in the
\* allocator's pool of reclaimed ids.
C14_Original ==
    /\ \A i \in DOMAIN contact_manifold, j \in DOMAIN contact_manifold :
         contact_manifold[i].id = contact_manifold[j].id => i = j
    /\ SlotIds(contact_manifold) \cap ids.free = {}

\* the 2D projection of a 3D point along the z axis, the axis of the normals
\* of ClipNormals3
Flat(p) == <<p[1], p[2]>>
\* the projected segments of edge i1 of m1 and edge i2 of m2 cross at a point
\* strictly inside both: the ends of each lie strictly on either side of the
\* other
EdgesCross(m1, i1, m2, i2) ==
    LET a == Flat(m1.vertices[i1])
        b == Flat(m1.vertices[(i1 % Len(m1.vertices)) + 1])
        c == Flat(m2.vertices[i2])
        d == Flat(m2.vertices[(i2 % Len(m2.vertices)) + 1])
    IN  /\ Perp(Sub(b, a), Sub(c, a)) * Perp(Sub(b, a), Sub(d, a)) < 0
        /\ Perp(Sub(d, c), Sub(a, c)) * Perp(Sub(d, c), Sub(b, c)) < 0

\* C11: in 3D, when both polyfaces have at most 2 vertices clip_polyfaces
\* emits no raw contact, wherever the vertices are.
C11_DegenerateSkip3D ==
    (/\ call.kind = "clip"
     /\ Len(manifold1.vertices) <= 2 /\ Len(manifold2.vertices) <= 2)
        => new_contacts = <<>>

\* two edges whose projections cross in their interiors, and no raw contact
C11_Witness ==
    /\ call.kind = "clip"
    /\ Len(manifold1.vertices) = 2 /\ Len(manifold2.vertices) = 2
    /\ EdgesCross(manifold1, 1, manifold2, 1)
    /\ new_contacts = <<>>

\* the projection of the point p lies strictly inside the projected polygon
\* of the face m: strictly on the same side of every edge
StrictlyInside(p, m) ==
    LET n == Len(m.vertices)
        side(i) == Perp(Sub(Flat(p), Flat(m.vertices[i])),
                        Sub(Flat(m.vertices[(i % n) + 1]),
                            Flat(m.vertices[i])))
    IN  /\ n > 2
        /\ \A i \in 1..n, j \in 1..n : side(i) * side(j) > 0
\* the fraction point q lies on the plane of the face m
OnPlane(q, m) ==
    /\ IsFinite(q)
    /\ Dot(Comb(q.n, 1, m.vertices[1], -q.d), m.normal.v) = 0
\* the fraction point q lies on the line through p along the z axis
OnNormalLine(q, p) ==
    /\ IsFinite(q)
    /\ q.n[1] = p[1] * q.d /\ q.n[2] = p[2] * q.d
\* the raw contacts keyed (f1, f2)
Keyed(f1, f2) ==
    {k \in DOMAIN new_contacts :
        new_contacts[k].f1 = f1 /\ new_contacts[k].f2 = f2}

\* C12: in 3D every vertex of face A whose projection lies strictly inside
\* face B's projected polygon (B of more than 2 vertices) gives exactly one
\* contact keyed (that vertex's id, B's whole-feature id); its point on A is
\* the vertex and its point on B is on B's plane, on the line through the
\* vertex along the normal.  When B has at most 2 vertices no contact is
\* keyed (a vertex id of A, B's whole-feature id).  The same holds with A and
\* B exchanged, keyed (A's whole-feature id, the vertex id of B).
C12_PointInPolygon ==
    call.kind = "clip"
        => /\ \A i \in DOMAIN manifold1.vertices :
                IF Len(manifold2.vertices) > 2
                THEN StrictlyInside(manifold1.vertices[i], manifold2)
                       => \E k \in DOMAIN new_contacts :
                            /\ Keyed(manifold1.vertices_id[i],
                                     manifold2.feature_id) = {k}
                            /\ new_contacts[k].contact.world1
                                  = Exact(manifold1.vertices[i])
                            /\ OnPlane(new_contacts[k].contact.world2,
                                       manifold2)
                            /\ OnNormalLine(new_contacts[k].contact.world2,
                                            manifold1.vertices[i])
                ELSE Keyed(manifold1.vertices_id[i], manifold2.feature_id)
                       = {}
           /\ \A i \in DOMAIN manifold2.vertices :
                IF Len(manifold1.vertices) > 2
                THEN StrictlyInside(manifold2.vertices[i], manifold1)
                       => \E k \in DOMAIN new_contacts :
                            /\ Keyed(manifold1.feature_id,
                                     manifold2.vertices_id[i]) = {k}
                            /\ new_contacts[k].contact.world2
                                  = Exact(manifold2.vertices[i])
                            /\ OnPlane(new_contacts[k].contact.world1,
                                       manifold1)
                            /\ OnNormalLine(new_contacts[k].contact.world1,
                                            manifold2.vertices[i])
                ELSE Keyed(manifold1.feature_id, manifold2.vertices_id[i])
                       = {}

\* a vertex of A's rectangle strictly inside a tilted face of B: the paired
\* point is above the vertex, at the height of B's plane there
C12_Witness ==
    /\ call.kind = "clip"
    /\ Len(manifold1.vertices) > 2
    /\ manifold2.normal = Some(<<1, 0, -1>>)
    /\ \E i \in DOMAIN manifold1.vertices, k \in DOMAIN new_contacts :
         /\ StrictlyInside(manifold1.vertices[i], manifold2)
         /\ new_contacts[k].f1 = manifold1.vertices_id[i]
         /\ new_contacts[k].f2 = manifold2.feature_id
         /\ new_contacts[k].contact.world2
               = Exact(<<manifold1.vertices[i][1], manifold1.vertices[i][2],
                         1 + manifold1.vertices[i][1]>>)

\* the polyface m has an edge of non-zero length carrying the feature id f
HasDirectedEdge(m, f) ==
    \E i \in DOMAIN m.edges_id :
        /\ m.edges_id[i] = f
        /\ m.vertices[i] # m.vertices[(i % Len(m.vertices)) + 1]
\* a line-kinematic pair: an Edge id on a side, a Vertex or Edge id on the
\* other
LinePair(f1, f2) ==
    \/ f1[1] = "Edge" /\ f2[1] \in {"Vertex", "Edge"}
    \/ f2[1] = "Edge" /\ f1[1] \in {"Vertex", "Edge"}
\* a line-kinematic pair one of whose Edge ids has no direction to fetch
MissingDirection(f1, f2) ==
    /\ LinePair(f1, f2)
    /\ \/ f1[1] = "Edge" /\ ~HasDirectedEdge(manifold1, f1)
       \/ f2[1] = "Edge" /\ ~HasDirectedEdge(manifold2, f2)

\* C13: in 3D, when a raw contact of an update is a line-kinematic pair whose
\* polyface has no edge for the Edge id, or an edge of no direction, the
\* update fails fatally (it returns nothing) and the manifold holds no record
\* for that pair; every line-kinematic record the manifold holds carries a
\* Line kinematic, never PointPoint.
C13_MissingDirectionIsFatal ==
    (call.kind = "update" /\ call.queried)
        => /\ \A k \in DOMAIN pushed :
                MissingDirection(pushed[k].f1, pushed[k].f2)
                    => /\ call.panicked /\ ~call.ret
                       /\ <<pushed[k].f1, pushed[k].f2>>
                             \notin Pairs(contact_manifold)
           /\ \A i \in DOMAIN contact_manifold :
                LinePair(contact_manifold[i].f1, contact_manifold[i].f2)
                    => contact_manifold[i].kinematic[1]
                          \in {"LinePoint", "PointLine", "LineLine"}

\* a vertex of A against an edge feature of B whose id none of B's edges
\* carries: the update has failed and committed nothing
C13_Witness ==
    /\ call.kind = "update" /\ call.panicked
    /\ dimension = 3
    /\ Len(pushed) = 1
    /\ pushed[1].f1[1] = "Vertex" /\ pushed[1].f2[1] = "Edge"
    /\ \A i \in DOMAIN manifold2.edges_id :
         manifold2.edges_id[i] # pushed[1].f2
    /\ contact_manifold = <<>>

\* the feature-id pair matches a row of contact_kinematic's table other than
\* the default one
ExplicitRow(f1, f2) ==
    IF dimension = 2
    THEN <<f1[1], f2[1]>> \in {<<"Vertex", "Vertex">>, <<"Vertex", "Edge">>,
                               <<"Edge", "Vertex">>}
    ELSE <<f1[1], f2[1]>> \in {<<"Vertex", "Vertex">>, <<"Vertex", "Face">>,
                               <<"Face", "Vertex">>, <<"Edge", "Vertex">>,
                               <<"Vertex", "Edge">>, <<"Edge", "Edge">>}

\* C16 as stated: every feature-id pair an update hands to contact_kinematic
\* matches an explicit row of its table, so the default PointPoint row is
\* never taken; in particular no Face/Face pair is classified in 3D.
C16_Original ==
    (call.kind = "update" /\ call.queried)
        => \A k \in DOMAIN pushed :
             /\ ExplicitRow(pushed[k].f1, pushed[k].f2)
             /\ ~(pushed[k].f1[1] = "Face" /\ pushed[k].f2[1] = "Face")

\* a Face/Face pair committed under the default row
FaceFaceCommitted ==
    /\ call.kind = "update" /\ call.ret
    /\ \E i \in DOMAIN contact_manifold :
         /\ contact_manifold[i].f1[1] = "Face"
         /\ contact_manifold[i].f2[1] = "Face"
         /\ contact_manifold[i].kinematic = <<"PointPoint">>

Cross3(u, v) ==
    <<u[2] * v[3] - u[3] * v[2], u[3] * v[1] - u[1] * v[3],
      u[1] * v[2] - u[2] * v[1]>>
\* the fraction point q lies strictly inside edge i of the face m, the edge
\* from vertex i to vertex (i + 1) mod n
InsideEdge(q, m, i) ==
    LET a == m.vertices[i]
        b == m.vertices[(i % Len(m.vertices)) + 1]
        v == Comb(q.n, 1, a, -q.d)
    IN  /\ q.d > 0
        /\ Cross3(v, Sub(b, a)) = <<0, 0, 0>>
        /\ 0 < Dot(v, Sub(b, a))
        /\ Dot(v, Sub(b, a)) < Dot(Sub(b, a), Sub(b, a)) * q.d
\* the number of edges of a face: one between two vertices, one per vertex of
\* a loop
EdgeCount(m) ==
    IF Len(m.vertices) <= 1 THEN 0
    ELSE IF Len(m.vertices) = 2 THEN 1 ELSE Len(m.vertices)
\* the contacts of edge i1 of A and edge i2 of B are as the claim says: one
\* contact exactly when the projected edges cross strictly inside both, its
\* points on the two original edges, one above the other
EdgePairAsClaimed(i1, i2) ==
    LET ks == Keyed(manifold1.edges_id[i1], manifold2.edges_id[i2])
    IN  IF EdgesCross(manifold1, i1, manifold2, i2)
        THEN \E k \in ks :
               /\ ks = {k}
               /\ InsideEdge(new_contacts[k].contact.world1, manifold1, i1)
               /\ InsideEdge(new_contacts[k].contact.world2, manifold2, i2)
               /\ new_contacts[k].contact.world1.n[1]
                        * new_contacts[k].contact.world2.d
                     = new_contacts[k].contact.world2.n[1]
                        * new_contacts[k].contact.world1.d
               /\ new_contacts[k].contact.world1.n[2]
                        * new_contacts[k].contact.world2.d
                     = new_contacts[k].contact.world2.n[2]
                        * new_contacts[k].contact.world1.d
        ELSE ks = {}

\* C18 as stated: in 3D, for every edge i1 of A and edge i2 of B,
\* clip_polyfaces emits a contact keyed by the two edge ids if and only if
\* the closest points of the projected edges are strictly inside both, at
\* most one per pair, its points on the original edges at the parameters of
\* the projected closest points.
C18_Original ==
    call.kind = "clip"
        => \A i1 \in 1..EdgeCount(manifold1), i2 \in 1..EdgeCount(manifold2) :
             EdgePairAsClaimed(i1, i2)

\* C18, amended: the same, unless both polyfaces have at most 2 vertices;
\* then no contact is emitted for their edges, crossing or not.
C18_EdgeEdgeContacts ==
    call.kind = "clip"
        => \A i1 \in 1..EdgeCount(manifold1), i2 \in 1..EdgeCount(manifold2) :
             IF Len(manifold1.vertices) <= 2 /\ Len(manifold2.vertices) <= 2
             THEN Keyed(manifold1.edges_id[i1], manifold2.edges_id[i2]) = {}
             ELSE EdgePairAsClaimed(i1, i2)

\* the last edge of a tilted face of B, from its last vertex back to its
\* first, crosses an edge of A's rectangle: the contact's point on B is on
\* the tilted edge, above its point on A
C18_Witness ==
    /\ call.kind = "clip"
    /\ Len(manifold1.vertices) = 4
    /\ manifold2.normal = Some(<<1, 0, -1>>)
    /\ \E i1 \in 1..4, k \in DOMAIN new_contacts :
         /\ EdgesCross(manifold1, i1, manifold2, 4)
         /\ new_contacts[k].f1 = manifold1.edges_id[i1]
         /\ new_contacts[k].f2 = manifold2.edges_id[4]
         /\ new_contacts[k].contact.world1.n[3] = 0
         /\ new_contacts[k].contact.world2.n[3]
               > new_contacts[k].contact.world2.d

\* the point of the query lies strictly inside its triangle
InsideTriangle ==
    LET a == point_query.a
        b == point_query.b
        c == point_query.c
        p == point_query.pt
        n == perp2(Sub(b, a), Sub(c, a))
    IN  /\ n * perp2(Sub(b, a), Sub(p, a)) > 0
        /\ n * perp2(Sub(c, b), Sub(p, b)) > 0
        /\ n * perp2(Sub(a, c), Sub(p, c)) > 0
\* the edges of the query's triangle, in the order of OnEdge's index
TriangleEdge(i) ==
    CASE i = 0 -> <<point_query.a, point_query.b>>
      [] i = 1 -> <<point_query.b, point_query.c>>
      [] i = 2 -> <<point_query.a, point_query.c>>
\* the squared distance of the query's point to the line of an edge
EdgeDistance(i) ==
    LET e == TriangleEdge(i)
        k == perp2(Sub(e[2], e[1]), Sub(point_query.pt, e[1]))
    IN  Div(k * k, norm_squared(Sub(e[2], e[1])))
\* the parameter of the orthogonal projection of the query's point on an edge
EdgeParameter(i) ==
    LET e == TriangleEdge(i)
    IN  Div(Dot(Sub(e[2], e[1]), Sub(point_query.pt, e[1])),
            norm_squared(Sub(e[2], e[1])))

\* C19: in 2D with solid = false and a point inside the triangle, the
\* returned projection lies on the triangle edge closest to the point, the
\* location is OnEdge(0) for AB, OnEdge(1) for BC or OnEdge(2) for AC, and
\* the barycentric coordinates are the point's projection parameter on that
\* same edge.
C19_Original ==
    (point_query.out.some /\ ~point_query.solid /\ InsideTriangle)
        => LET r == point_query.out.v
           IN  /\ r.loc[1] = "OnEdge"
               /\ \A j \in 0..2 :
                      ~Less(EdgeDistance(j), EdgeDistance(r.loc[2]))
               /\ SameScalar(r.loc[3][2], EdgeParameter(r.loc[2]))
               /\ SameScalar(r.loc[3][1], Minus(1, EdgeParameter(r.loc[2])))
               /\ SamePoint(r.proj.point,
                            point_at(TriangleEdge(r.loc[2]),
                                     EdgeParameter(r.loc[2])))

====
